---- MODULE Spec2Model ----
(***************************************************************************)
(* Model of the creative ZIP upload handler (src/handler.js): the ZIP      *)
(* content validator validateZipFile and the clickthrough URL rewriter     *)
(* processClickthroughUrls.  Texts are TLA+ strings; a character is a      *)
(* string of length one.                                                   *)
(***************************************************************************)
EXTENDS Integers, Sequences, FiniteSets, TLC

VARIABLES
    pc,             \* position of the modelled call: "start" or "done"
    type,           \* the bundle type handed to the function under study
    fileBaseName,   \* declared base name of the uploaded zip
    files,          \* what _getFiles returns: the listing, in order
    content,        \* what _readRootHtmlFile returns, per path
    validation,     \* outcome of validateZipFile
    listerCalls,    \* number of _getFiles invocations
    readerCalls,    \* arguments of the _readRootHtmlFile invocations, in order
    body,           \* the text handed to processClickthroughUrls
    parts,          \* how body was composed (bookkeeping for the properties)
    matchResult,    \* what body.match(regex) returned inside the rewriter
    output,         \* the text processClickthroughUrls returned
    exporter,       \* the exporter field of the upload request
    filesInfo,      \* the uploaded files of the request, in order
    disk,           \* the extract directory: what each sub-directory holds
    cursor,         \* the file of filesInfo the handler's loop is at
    uploadResults,  \* the keys uploadDirectoryToS3 has pushed so far
    s3UploadResults, \* what the last uploadDirectoryToS3 returned
    log,            \* validateZipFile calls and objects put to S3, in order
    response        \* what the handler passed to next()

vars == <<pc, type, fileBaseName, files, content, validation, listerCalls,
          readerCalls, body, parts, matchResult, output, exporter, filesInfo,
          disk, cursor, uploadResults, s3UploadResults, log, response>>

validatorVars == <<fileBaseName, files, content, validation, listerCalls, readerCalls>>
rewriterVars == <<body, parts, matchResult, output>>
handlerVars == <<exporter, filesInfo, disk, cursor, uploadResults, s3UploadResults,
                 log, response>>

----------------------------------------------------------------------------
(* Bounds *)

MaxFiles == 2
MaxParts == 2
MaxBundles == 2

----------------------------------------------------------------------------
(* String primitives of the JavaScript runtime and lodash *)

\* The character at position i (1-based), "" outside the string
CharAt(s, i) == IF 1 <= i /\ i <= Len(s) THEN SubSeq(s, i, i) ELSE ""

StartsWithAt(s, p, i) ==
    /\ i >= 1
    /\ i + Len(p) - 1 <= Len(s)
    /\ SubSeq(s, i, i + Len(p) - 1) = p

\* String.prototype.indexOf(p, from), 1-based; 0 when p does not occur.
IndexOfFrom(s, p, from) ==
    LET hits == {i \in from..(Len(s) - Len(p) + 1) : StartsWithAt(s, p, i)}
    IN  IF hits = {} THEN 0 ELSE CHOOSE i \in hits : \A j \in hits : i <= j

IndexOf(s, p) == IndexOfFrom(s, p, 1)

\* _.includes(string, value): string.indexOf(value) > -1
includes(s, p) == IndexOf(s, p) # 0

\* String.prototype.split(sep)[0] for a non-empty separator
splitFirst(s, sep) ==
    LET i == IndexOf(s, sep)
    IN  IF i = 0 THEN s ELSE SubSeq(s, 1, i - 1)

\* String.prototype.replace(pattern, '') with a string pattern: the first
\* occurrence only.
removeFirst(s, p) ==
    LET i == IndexOf(s, p)
    IN  IF i = 0 THEN s
        ELSE SubSeq(s, 1, i - 1) \o SubSeq(s, i + Len(p), Len(s))

----------------------------------------------------------------------------
(* Program constants *)

EXTRACT_DIRECTORY == "../../../../../tmp/rich-media-markup-extracted"

GWD_META == "name=\"generator\" content=\"Google Web Designer"
ASSETS_LINK == "src=\"assets/"

MissingRootHtml == "Zip file does not contain a root .html file"
EmptyRootHtml == "Root .html file is missing content"
MissingGeneratorMetadata == "Root .html file does not contain Google Web Designer metadata"
MissingAssetsFolder == "Zip file is missing assets folder for linked assets"
BaseNameMismatch(declared, derived) ==
    "Zip file name '" \o declared \o "' does not contain basename '" \o derived \o "'"

----------------------------------------------------------------------------
(* validateZipFile *)

\* Variant: the last matching path of the listing is taken (_.findLast).
findRootHtmlFile_last(fs) ==
    LET hits == {i \in 1..Len(fs) : includes(fs[i], ".html")}
    IN  IF hits = {} THEN 0 ELSE CHOOSE i \in hits : \A j \in hits : j <= i

\* _.find(files, file => _.includes(file, '.html')), as an index; 0 = undefined
findRootHtmlFile(fs) ==
    LET hits == {i \in 1..Len(fs) : includes(fs[i], ".html")}
    IN  IF hits = {} THEN 0 ELSE CHOOSE i \in hits : \A j \in hits : i <= j

\* Variant: the segment before the first path separator is not taken.
rootHtmlFileBaseName_noSegment(rootHtmlFile, fbn) ==
    splitFirst(removeFirst(rootHtmlFile, EXTRACT_DIRECTORY \o "/" \o fbn \o "/"), ".html")

rootHtmlFileBaseName(rootHtmlFile, fbn) ==
    splitFirst(
        splitFirst(removeFirst(rootHtmlFile, EXTRACT_DIRECTORY \o "/" \o fbn \o "/"),
                   ".html"),
        "/")

Returned(reads) == [ok |-> TRUE, message |-> "", reads |-> reads]
Thrown(msg, reads) == [ok |-> FALSE, message |-> msg, reads |-> reads]

\* Variant: _.every in place of "some path".
hasAssets_every(fs) == \A i \in 1..Len(fs) : includes(fs[i], "assets/")

\* _.filter(files, file => _.includes(file, 'assets/')).length > 0
hasAssets(fs) == \E i \in 1..Len(fs) : includes(fs[i], "assets/")


\* Variant: the asset rule is checked before the generator metadata rule.
validateGwd_assetsFirst(fs, rootHtmlFile, read) ==
    LET rootHtmlString == read[rootHtmlFile]
        reads == <<rootHtmlFile>>
    IN  IF Len(rootHtmlString) < 1 THEN Thrown(EmptyRootHtml, reads)
        ELSE IF includes(rootHtmlString, ASSETS_LINK) /\ ~hasAssets(fs)
            THEN Thrown(MissingAssetsFolder, reads)
        ELSE IF ~includes(rootHtmlString, GWD_META)
            THEN Thrown(MissingGeneratorMetadata, reads)
        ELSE Returned(reads)

\* The gwd branch, after the root file was found.
validateGwd(fs, rootHtmlFile, read) ==
    LET rootHtmlString == read[rootHtmlFile]
        reads == <<rootHtmlFile>>
    IN  IF Len(rootHtmlString) < 1 THEN Thrown(EmptyRootHtml, reads)
        ELSE IF ~includes(rootHtmlString, GWD_META)
            THEN Thrown(MissingGeneratorMetadata, reads)
        ELSE IF includes(rootHtmlString, ASSETS_LINK) /\ ~hasAssets(fs)
            THEN Thrown(MissingAssetsFolder, reads)
        ELSE Returned(reads)

\* Variant: the content length is not checked.
validateOther_noEmptyCheck(fbn, rootHtmlFile, read) ==
    LET derived == rootHtmlFileBaseName(rootHtmlFile, fbn)
    IN  IF ~includes(fbn, derived) THEN Thrown(BaseNameMismatch(fbn, derived), <<>>)
        ELSE Returned(<<rootHtmlFile>>)

\* Variant: the root file is read before the base name is compared.
validateOther_readFirst(fbn, rootHtmlFile, read) ==
    LET derived == rootHtmlFileBaseName(rootHtmlFile, fbn)
        reads == <<rootHtmlFile>>
    IN  IF ~includes(fbn, derived) THEN Thrown(BaseNameMismatch(fbn, derived), reads)
        ELSE IF Len(read[rootHtmlFile]) < 1 THEN Thrown(EmptyRootHtml, reads)
        ELSE Returned(reads)

\* The else branch (every type other than gwd), after the root file was found.
validateOther(fbn, rootHtmlFile, read) ==
    LET derived == rootHtmlFileBaseName(rootHtmlFile, fbn)
    IN  IF ~includes(fbn, derived) THEN Thrown(BaseNameMismatch(fbn, derived), <<>>)
        ELSE IF Len(read[rootHtmlFile]) < 1
            THEN Thrown(EmptyRootHtml, <<rootHtmlFile>>)
        ELSE Returned(<<rootHtmlFile>>)

\* Variant: the missing-root check sits inside the gwd branch only.
validateZipFile_rootCheckInGwd(t, fbn, fs, read) ==
    LET r == findRootHtmlFile(fs)
    IN  IF t = "gwd"
        THEN IF r = 0 THEN Thrown(MissingRootHtml, <<>>) ELSE validateGwd(fs, fs[r], read)
        ELSE IF r = 0 THEN Returned(<<>>) ELSE validateOther(fbn, fs[r], read)

validateZipFile(t, fbn, fs, read) ==
    LET r == findRootHtmlFile(fs)
    IN  IF r = 0 THEN Thrown(MissingRootHtml, <<>>)
        ELSE IF t = "gwd" THEN validateGwd(fs, fs[r], read)
        ELSE validateOther(fbn, fs[r], read)

----------------------------------------------------------------------------
(* Inputs of the validator runs *)

ExtractedRoot == EXTRACT_DIRECTORY \o "/a (1)/a.html"

Paths == {"a.html", "b.html", "d/b.html", ExtractedRoot, "assets/i.png", "i.png"}
HtmlPaths == {"a.html", "b.html", "d/b.html", ExtractedRoot}
AssetPaths == {"assets/i.png"}

MetaTag == "<meta name=\"generator\" content=\"Google Web Designer\"/>"
ImageTag == "<image src=\"assets/i.png\"/>"
OtherMetaTag == "<meta name=\"generator\" content=\"Google Web\"/>"
Contents == {"", ImageTag, OtherMetaTag, MetaTag, MetaTag \o ImageTag}

BaseNames == {"a", "a (1)", "b"}
Types == {"gwd", "conversion"}

Listings == UNION {[1..n -> Paths] : n \in 0..MaxFiles}

NoValidation == [ok |-> FALSE, message |-> "", reads |-> <<>>]

NoDirectory == [exists |-> FALSE, entries |-> <<>>, html |-> ""]
NoResponse == [kind |-> "none", message |-> ""]

\* The handler's variables while a single function is under study
HandlerIdle ==
    /\ exporter = "gwd"
    /\ filesInfo = <<>>
    /\ disk = [d \in BaseNames |-> NoDirectory]
    /\ cursor = 0
    /\ uploadResults = <<>>
    /\ s3UploadResults = <<>>
    /\ log = <<>>
    /\ response = NoResponse

InitValidate ==
    /\ pc = "start"
    /\ type \in Types
    /\ fileBaseName \in BaseNames
    /\ files \in Listings
    /\ content \in [HtmlPaths -> Contents]
    /\ validation = NoValidation
    /\ listerCalls = 0
    /\ readerCalls = <<>>
    /\ body = ""
    /\ parts = <<>>
    /\ matchResult = <<>>
    /\ output = ""
    /\ HandlerIdle

\* One call validateZipFile({type, fileBaseName, _getFiles, _readRootHtmlFile})
ValidateZipFile ==
    /\ pc = "start"
    /\ LET v == validateZipFile(type, fileBaseName, files, content)
       IN  /\ validation' = v
           /\ readerCalls' = v.reads
    /\ listerCalls' = listerCalls + 1
    /\ pc' = "done"
    /\ UNCHANGED <<type, fileBaseName, files, content, rewriterVars, handlerVars>>

NextValidate == ValidateZipFile

SpecValidate == InitValidate /\ [][NextValidate]_vars

----------------------------------------------------------------------------
(* Regular expressions of processClickthroughUrls *)

IsSpace(c) == c \in {" ", "\t", "\n", "\r", "\f"}
IsLineTerminator(c) == c \in {"\n", "\r"}
IsQuote(c) == c \in {"'", "\""}

UpperCase == "ABCDEFGHIJKLMNOPQRSTUVWXYZ"
LowerCase == "abcdefghijklmnopqrstuvwxyz"

\* Case folding of one character under the i flag
toLower(c) ==
    LET k == IF c = "" THEN 0 ELSE IndexOf(UpperCase, c)
    IN  IF k = 0 THEN c ELSE CharAt(LowerCase, k)

\* \s* from position i: the first position that holds no white space
skipSpaces(s, i) ==
    CHOOSE k \in i..(Len(s) + 1) :
        /\ k > Len(s) \/ ~IsSpace(CharAt(s, k))
        /\ \A j \in i..(k - 1) : IsSpace(CharAt(s, j))

\* The last position of the run of non-white-space characters that starts
\* at i (i - 1 when the run is empty)
runEnd(s, i) ==
    CHOOSE k \in (i - 1)..Len(s) :
        /\ k = Len(s) \/ IsSpace(CharAt(s, k + 1))
        /\ \A j \in i..k : ~IsSpace(CharAt(s, j))

Max(S) == CHOOSE x \in S : \A y \in S : y <= x
Min(S) == CHOOSE x \in S : \A y \in S : x <= y

\* Variant: the argument list may not hold a line break, /.exit\([^\)\n]+\)/gm.
exitMatchEnd_withinLine(s, i) ==
    IF /\ i + 6 <= Len(s)
       /\ ~IsLineTerminator(CharAt(s, i))
       /\ SubSeq(s, i + 1, i + 5) = "exit("
       /\ CharAt(s, i + 6) # ")"
    THEN LET e == IndexOfFrom(s, ")", i + 7)
         IN  IF e # 0 /\ includes(SubSeq(s, i, e), "\n") THEN 0 ELSE e
    ELSE 0

\* /.exit\([^\)]+\)/gm tried at position i: the position of the last matched
\* character, 0 when there is no match at i.
exitMatchEnd(s, i) ==
    IF /\ i + 6 <= Len(s)
       /\ ~IsLineTerminator(CharAt(s, i))
       /\ SubSeq(s, i + 1, i + 5) = "exit("
       /\ CharAt(s, i + 6) # ")"
    THEN IndexOfFrom(s, ")", i + 7)
    ELSE 0

\* Variant: any text of the line may stand between "=" and the quoted value,
\* /clickTag\s*=.*["'](\S*)["']/gi.
clickTagMatchEnd_anyBeforeQuote(s, i) ==
    IF /\ i + 7 <= Len(s)
       /\ \A k \in 1..8 : toLower(CharAt(s, i + k - 1)) = CharAt("clicktag", k)
    THEN LET eq == skipSpaces(s, i + 8)
             nl == IndexOfFrom(s, "\n", eq)
             lineEnd == IF nl = 0 THEN Len(s) ELSE nl - 1
         IN  IF CharAt(s, eq) # "=" THEN 0
             ELSE LET closing == {j \in (eq + 2)..lineEnd :
                                     /\ IsQuote(CharAt(s, j))
                                     /\ \E q \in (eq + 1)..(j - 1) :
                                            /\ IsQuote(CharAt(s, q))
                                            /\ \A k \in (q + 1)..(j - 1) :
                                                   ~IsSpace(CharAt(s, k))}
                  IN  IF closing = {} THEN 0 ELSE Max(closing)
    ELSE 0

\* /clickTag\s*=\s*["'](\S*)["']/gi tried at position i
clickTagMatchEnd(s, i) ==
    IF /\ i + 7 <= Len(s)
       /\ \A k \in 1..8 : toLower(CharAt(s, i + k - 1)) = CharAt("clicktag", k)
    THEN LET eq == skipSpaces(s, i + 8)
         IN  IF CharAt(s, eq) # "=" THEN 0
             ELSE LET q == skipSpaces(s, eq + 1)
                  IN  IF ~IsQuote(CharAt(s, q)) THEN 0
                      ELSE LET closing == {j \in (q + 1)..runEnd(s, q + 1) :
                                              IsQuote(CharAt(s, j))}
                           IN  IF closing = {} THEN 0 ELSE Max(closing)
    ELSE 0

\* /(["']https?:\/\/[^\s]+["'])/g, and with a "," behind the closing quote
\* when comma is TRUE, tried at position i
urlMatchEnd(s, i, comma) ==
    IF ~IsQuote(CharAt(s, i)) THEN 0
    ELSE LET u == IF StartsWithAt(s, "https://", i + 1) THEN i + 9
                  ELSE IF StartsWithAt(s, "http://", i + 1) THEN i + 8
                  ELSE 0
         IN  IF u = 0 THEN 0
             ELSE LET closing == {j \in (u + 1)..runEnd(s, u) :
                                     /\ IsQuote(CharAt(s, j))
                                     /\ comma => CharAt(s, j + 1) = ","}
                  IN  IF closing = {} THEN 0
                      ELSE IF comma THEN Max(closing) + 1 ELSE Max(closing)

regexMatchEnd(s, i, isTypeConversion) ==
    IF isTypeConversion THEN clickTagMatchEnd(s, i) ELSE exitMatchEnd(s, i)

\* Variant: the regex without the g flag, only the first match is returned.
match_firstOnly(s, from, isTypeConversion) ==
    LET starts == {i \in from..Len(s) : regexMatchEnd(s, i, isTypeConversion) # 0}
    IN  IF starts = {} THEN <<>>
        ELSE <<SubSeq(s, Min(starts), regexMatchEnd(s, Min(starts), isTypeConversion))>>

\* String.prototype.match with a global regex: the matched texts, left to right
RECURSIVE match(_, _, _)
match(s, from, isTypeConversion) ==
    LET starts == {i \in from..Len(s) : regexMatchEnd(s, i, isTypeConversion) # 0}
    IN  IF starts = {} THEN <<>>
        ELSE LET i == Min(starts)
                 e == regexMatchEnd(s, i, isTypeConversion)
             IN  <<SubSeq(s, i, e)>> \o match(s, e + 1, isTypeConversion)

----------------------------------------------------------------------------
(* lodash trim functions with a character set *)

trimStart(s, chars) ==
    LET k == CHOOSE k \in 1..(Len(s) + 1) :
                 /\ k > Len(s) \/ ~includes(chars, CharAt(s, k))
                 /\ \A j \in 1..(k - 1) : includes(chars, CharAt(s, j))
    IN  SubSeq(s, k, Len(s))

trimEnd(s, chars) ==
    LET k == CHOOSE k \in 0..Len(s) :
                 /\ k = 0 \/ ~includes(chars, CharAt(s, k))
                 /\ \A j \in (k + 1)..Len(s) : includes(chars, CharAt(s, j))
    IN  SubSeq(s, 1, k)

trim(s, chars) == trimEnd(trimStart(s, chars), chars)

----------------------------------------------------------------------------
(* processClickthroughUrls *)

INDIRECTION == "decodeURIComponent(window.location.href.split('?adserver=')[1]) + "

trimmedUrl(url, isTypeConversion) ==
    IF isTypeConversion
    THEN trim(trim(url, "'"), "\"")
    ELSE trimEnd(trimStart(trimEnd(trimStart(url, "'"), "',"), "\""), "\",")

\* The replacer callback of params.replace(urlRegex, url => ...)
replacer(url, isTypeConversion) ==
    INDIRECTION \o "\"" \o trimmedUrl(url, isTypeConversion) \o "\""

RECURSIVE stripSpaces(_)
stripSpaces(s) ==
    IF s = "" THEN ""
    ELSE (IF IsSpace(CharAt(s, 1)) THEN "" ELSE CharAt(s, 1))
         \o stripSpaces(SubSeq(s, 2, Len(s)))

\* Variant: the text in front of the literal is emitted without white space.
RECURSIVE formatParams_collapsed(_, _, _)
formatParams_collapsed(params, from, isTypeConversion) ==
    LET starts == {i \in from..Len(params) :
                      urlMatchEnd(params, i, ~isTypeConversion) # 0}
    IN  IF starts = {} THEN SubSeq(params, from, Len(params))
        ELSE LET i == Min(starts)
                 e == urlMatchEnd(params, i, ~isTypeConversion)
             IN  stripSpaces(SubSeq(params, from, i - 1))
                 \o replacer(SubSeq(params, i, e), isTypeConversion)
                 \o formatParams_collapsed(params, e + 1, isTypeConversion)

\* params.replace(urlRegex, replacer): every match, left to right
RECURSIVE formatParams(_, _, _)
formatParams(params, from, isTypeConversion) ==
    LET starts == {i \in from..Len(params) :
                      urlMatchEnd(params, i, ~isTypeConversion) # 0}
    IN  IF starts = {} THEN SubSeq(params, from, Len(params))
        ELSE LET i == Min(starts)
                 e == urlMatchEnd(params, i, ~isTypeConversion)
             IN  SubSeq(params, from, i - 1)
                 \o replacer(SubSeq(params, i, e), isTypeConversion)
                 \o formatParams(params, e + 1, isTypeConversion)

\* GetSubstitution of String.prototype.replace for a string pattern: $$, $&,
\* $` and $' in the replacement text are expanded, anything else is literal.
RECURSIVE getSubstitution(_, _, _, _, _)
getSubstitution(matched, str, position, replacement, i) ==
    LET d == IndexOfFrom(replacement, "$", i)
        n == CharAt(replacement, d + 1)
        rest == getSubstitution(matched, str, position, replacement, d + 2)
    IN  IF d = 0 THEN SubSeq(replacement, i, Len(replacement))
        ELSE SubSeq(replacement, i, d - 1) \o
             (IF n = "$" THEN "$" \o rest
              ELSE IF n = "&" THEN matched \o rest
              ELSE IF n = "`" THEN SubSeq(str, 1, position - 1) \o rest
              ELSE IF n = "'" THEN SubSeq(str, position + Len(matched), Len(str)) \o rest
              ELSE "$" \o getSubstitution(matched, str, position, replacement, d + 1))

\* output.replace(params, formattedParams): the first occurrence of the text
\* params, replaced by the expansion of formattedParams
replace(str, pattern, replacement) ==
    LET position == IndexOf(str, pattern)
    IN  IF position = 0 THEN str
        ELSE SubSeq(str, 1, position - 1)
             \o getSubstitution(pattern, str, position, replacement, 1)
             \o SubSeq(str, position + Len(pattern), Len(str))

\* _.each(body.match(regex), params => { ... output = output.replace(...) })
RECURSIVE each(_, _, _)
each(matches, out, isTypeConversion) ==
    IF matches = <<>> THEN out
    ELSE each(Tail(matches),
              replace(out, Head(matches),
                      formatParams(Head(matches), 1, isTypeConversion)),
              isTypeConversion)

processClickthroughUrls(b, t) ==
    LET isTypeConversion == (t = "conversion")
    IN  each(match(b, 1, isTypeConversion), b, isTypeConversion)

----------------------------------------------------------------------------
(* Inputs of the rewriter runs: a body is a sequence of parts, each an exit *)
(* call, a clickTag assignment or plain text.                               *)

Urls == {"http://a.co/", "https://b.co/?p=$$1"}
Quotes == {"'", "\""}

ExitParts ==
    {[kind |-> "exit", pre |-> "g.exit('a', ", q |-> q, url |-> u, post |-> " true);\n"] :
        q \in Quotes, u \in Urls}

\* An exit call whose argument list is broken over two lines
MultiLineExitParts ==
    {[kind |-> "exit", pre |-> "g.exit('a',\n  ", q |-> "'", url |-> "http://a.co/",
      post |-> " true);\n"]}

Declarators == {"var clickTag", "let ClickTAG", "const clickTag"}
Assignments == {" = ", "=", "  =  "}

\* The literals of the assignments: quote style and URL
Literals == {<<"'", "http://a.co/">>, <<"\"", "https://b.co/?p=$$1">>}

AssignParts ==
    {[kind |-> "assign", pre |-> d \o a, q |-> l[1], url |-> l[2], post |-> ";\n"] :
        d \in Declarators, a \in Assignments, l \in Literals}

TextParts ==
    {[kind |-> "text", pre |-> t, q |-> "", url |-> "", post |-> ""] :
        t \in {"x.exit('a', 1);\n", "var tag = 'http://c.co/';\n"}}

AllParts == ExitParts \cup MultiLineExitParts \cup AssignParts \cup TextParts

\* The source text of one part
Render(p) ==
    IF p.kind = "exit" THEN p.pre \o p.q \o p.url \o p.q \o "," \o p.post
    ELSE IF p.kind = "assign" THEN p.pre \o p.q \o p.url \o p.q \o p.post
    ELSE p.pre

RECURSIVE RenderAll(_)
RenderAll(ps) == IF ps = <<>> THEN "" ELSE Render(Head(ps)) \o RenderAll(Tail(ps))

Compositions == UNION {[1..n -> AllParts] : n \in 0..MaxParts}

InitRewrite ==
    /\ pc = "start"
    /\ type \in Types
    /\ parts \in Compositions
    /\ body = RenderAll(parts)
    /\ matchResult = <<>>
    /\ output = ""
    /\ HandlerIdle
    /\ fileBaseName = ""
    /\ files = <<>>
    /\ content = <<>>
    /\ validation = NoValidation
    /\ listerCalls = 0
    /\ readerCalls = <<>>

\* One call processClickthroughUrls(body, type)
ProcessClickthroughUrls ==
    /\ pc = "start"
    /\ matchResult' = match(body, 1, type = "conversion")
    /\ output' = processClickthroughUrls(body, type)
    /\ pc' = "done"
    /\ UNCHANGED <<type, body, parts, validatorVars, handlerVars>>

NextRewrite == ProcessClickthroughUrls

SpecRewrite == InitRewrite /\ [][NextRewrite]_vars

\* A further call processClickthroughUrls(body, type) on the text the
\* previous call returned
ReapplyClickthroughUrls ==
    /\ pc = "done"
    /\ listerCalls = 0
    /\ body' = output
    /\ matchResult' = match(output, 1, type = "conversion")
    /\ output' = processClickthroughUrls(output, type)
    /\ pc' = "again"
    /\ UNCHANGED <<type, parts, validatorVars, handlerVars>>

NextReapply == ProcessClickthroughUrls \/ ReapplyClickthroughUrls

\* The bodies of the repeated runs: every exit call, the assignments with
\* one spacing, and the plain texts
ReapplyParts ==
    ExitParts \cup MultiLineExitParts \cup TextParts
        \cup {p \in AssignParts : \E d \in Declarators : p.pre = d \o " = "}

InitReapply ==
    /\ InitRewrite
    /\ \A i \in 1..Len(parts) : parts[i] \in ReapplyParts

SpecReapply == InitReapply /\ [][NextReapply]_vars

----------------------------------------------------------------------------
(* The upload handler: parse the form, extract every zip, then for each    *)
(* file of filesInfo validate, upload and remove the temporary folders.    *)

\* Variant: validateFile hands the exporter on as the type, whatever it is.
validateFileType_passedOn(e) == e

\* The type validateFile hands to validateZipFile
validateFileType(e) ==
    CASE e = "gwd" -> "gwd"
      [] e = "conversion" -> "conversion"
      [] OTHER -> "gwd"

\* The type uploadDirectoryToS3 hands to processClickthroughUrls
uploadRewriteType(e) ==
    CASE e = "gwd" -> "gwd"
      [] e = "conversio" -> "conversion"
      [] OTHER -> "gwd"

\* path.join(EXTRACT_DIRECTORY, fileBaseName)
destinationDirectory(fbn) == EXTRACT_DIRECTORY \o "/" \o fbn

\* getFiles(directoryToUpload): the paths under the directory, [] when the
\* directory does not exist
getFiles(dk, fbn) ==
    IF dk[fbn].exists
    THEN [i \in 1..Len(dk[fbn].entries) |->
            destinationDirectory(fbn) \o "/" \o dk[fbn].entries[i]]
    ELSE <<>>

\* fs.readFileSync(path, 'utf8') for the .html paths under the directory
readFileSync(dk, fbn) ==
    [f \in {getFiles(dk, fbn)[i] : i \in 1..Len(getFiles(dk, fbn))} |-> dk[fbn].html]

CampaignId == "c"
UploadId == "u"

getS3UploadKey(filePath, directoryToUpload, fbn) ==
    LET s3DirectoryPath == CampaignId \o "/" \o fbn \o "_" \o UploadId \o "/"
        s3FilePath == removeFirst(filePath, directoryToUpload \o "/")
    IN  IF splitFirst(s3FilePath, "/") = fbn
        THEN s3DirectoryPath \o removeFirst(s3FilePath, fbn \o "/")
        ELSE s3DirectoryPath \o s3FilePath

\* Variant: the validation is not awaited, its failure does not reach the loop.
afterValidateFile_notAwaited(v) == "upload"

\* await validateFile(...): a failed validation throws into the catch block
afterValidateFile(v) == IF v.ok THEN "upload" ELSE "catch"

\* removeTempFolders(): the whole extract directory is deleted
removeTempFolders(dk, fbn) == [d \in DOMAIN dk |-> NoDirectory]

(* Inputs of the handler runs *)

Exporters == {"gwd", "conversion", "html5"}

\* A root file that holds the gwd marker, an exit call and a clickTag
ExitCall == "g.exit('a', 'http://a.co/', true);\n"
ClickTag == "var clickTag = 'http://a.co/';\n"
HandlerHtml == MetaTag \o "\n" \o ExitCall \o ClickTag

\* What an uploaded file unpacks to; the last one cannot be unpacked
Zips ==
    {[entries |-> <<"a.html">>, html |-> HandlerHtml, readable |-> TRUE],
     [entries |-> <<"i.png", "a.html">>, html |-> HandlerHtml, readable |-> TRUE],
     [entries |-> <<"i.png">>, html |-> "", readable |-> TRUE],
     [entries |-> <<"a.html">>, html |-> "", readable |-> TRUE],
     [entries |-> <<>>, html |-> "", readable |-> FALSE]}

Extensions == {".zip", ".txt"}

Uploads ==
    {[fileBaseName |-> n, fileExtension |-> x, zip |-> z] :
        n \in BaseNames, x \in Extensions, z \in Zips}

\* The requests: up to MaxBundles files of different base names
Requests ==
    {fi \in UNION {[1..n -> Uploads] : n \in 0..MaxBundles} :
        \A i, j \in 1..Len(fi) : i # j => fi[i].fileBaseName # fi[j].fileBaseName}

InitHandler ==
    /\ pc = "parse"
    /\ exporter \in Exporters
    /\ filesInfo \in Requests
    /\ disk = [d \in BaseNames |-> NoDirectory]
    /\ cursor = 0
    /\ uploadResults = <<>>
    /\ s3UploadResults = <<>>
    /\ log = <<>>
    /\ response = NoResponse
    /\ type = "gwd"
    /\ fileBaseName = ""
    /\ files = <<>>
    /\ content = <<>>
    /\ validation = NoValidation
    /\ listerCalls = 0
    /\ readerCalls = <<>>
    /\ body = ""
    /\ parts = <<>>
    /\ matchResult = <<>>
    /\ output = ""

Responds(kind, message) ==
    /\ response' = [kind |-> kind, message |-> message]
    /\ pc' = "responded"

\* await parseFilesFromForm(form, req) and the two checks behind it
ParseFilesFromForm ==
    /\ pc = "parse"
    /\ \E rejected \in BOOLEAN :
          IF rejected THEN Responds("ServerError", "form rejected")
          ELSE IF Len(filesInfo) = 0
              THEN Responds("UserError", "no files uploaded")
          ELSE IF \E i \in 1..Len(filesInfo) : filesInfo[i].fileExtension # ".zip"
              THEN Responds("UserError", "unsupported file type")
          ELSE pc' = "extract" /\ UNCHANGED response
    /\ UNCHANGED <<exporter, filesInfo, disk, cursor, uploadResults, s3UploadResults, log>>
    /\ UNCHANGED <<type, validatorVars, rewriterVars>>

\* await extractFiles(filesInfo): every zip is unpacked, in order, before
\* the loop starts; the first zip that cannot be unpacked ends the request
ExtractFiles ==
    /\ pc = "extract"
    /\ LET bad == {i \in 1..Len(filesInfo) : ~filesInfo[i].zip.readable}
           n == IF bad = {} THEN Len(filesInfo) ELSE Min(bad) - 1
       IN  /\ disk' = [d \in BaseNames |->
                         IF \E i \in 1..n : filesInfo[i].fileBaseName = d
                         THEN LET i == CHOOSE i \in 1..n : filesInfo[i].fileBaseName = d
                              IN  [exists |-> TRUE,
                                   entries |-> filesInfo[i].zip.entries,
                                   html |-> filesInfo[i].zip.html]
                         ELSE disk[d]]
           /\ IF bad = {}
              THEN pc' = "validate" /\ cursor' = 1 /\ UNCHANGED response
              ELSE Responds("ServerError", "failed to extract") /\ UNCHANGED cursor
    /\ UNCHANGED <<exporter, filesInfo, uploadResults, s3UploadResults, log>>
    /\ UNCHANGED <<type, validatorVars, rewriterVars>>

\* await validateFile({ directoryToUpload, fileBaseName, exporter })
ValidateFile ==
    /\ pc = "validate"
    /\ LET fbn == filesInfo[cursor].fileBaseName
           t == validateFileType(exporter)
           v == validateZipFile(t, fbn, getFiles(disk, fbn), readFileSync(disk, fbn))
       IN  /\ log' = Append(log, [op |-> "validateZipFile", bundle |-> cursor,
                                  type |-> t, ok |-> v.ok, key |-> "",
                                  body |-> v.message])
           /\ IF afterValidateFile(v) = "upload"
              THEN pc' = "upload" /\ uploadResults' = <<>> /\ UNCHANGED response
              ELSE Responds("ServerError", v.message) /\ UNCHANGED uploadResults
    /\ UNCHANGED <<exporter, filesInfo, disk, cursor, s3UploadResults>>
    /\ UNCHANGED <<type, validatorVars, rewriterVars>>

\* One round of the loop of uploadDirectoryToS3: the next file is read,
\* an .html file is rewritten, and the object is put to S3, or the put fails
UploadObjectToS3 ==
    /\ pc = "upload"
    /\ LET fbn == filesInfo[cursor].fileBaseName
           filesToUpload == getFiles(disk, fbn)
           j == Len(uploadResults) + 1
       IN  /\ j <= Len(filesToUpload)
           /\ LET filePath == filesToUpload[j]
                  s3UploadKey == getS3UploadKey(filePath, destinationDirectory(fbn), fbn)
                  isHtml == includes(filePath, ".html")
                  t == IF isHtml THEN uploadRewriteType(exporter) ELSE ""
                  Body == IF isHtml
                          THEN processClickthroughUrls(readFileSync(disk, fbn)[filePath], t)
                          ELSE "bytes"
              IN  \E failed \in BOOLEAN :
                     IF failed
                     THEN /\ Responds("ServerError", "failed to upload")
                          /\ UNCHANGED <<log, uploadResults>>
                     ELSE /\ log' = Append(log, [op |-> "putObject", bundle |-> cursor,
                                                 type |-> t, ok |-> TRUE,
                                                 key |-> s3UploadKey, body |-> Body])
                          /\ uploadResults' = Append(uploadResults, s3UploadKey)
                          /\ UNCHANGED <<pc, response>>
    /\ UNCHANGED <<exporter, filesInfo, disk, cursor, s3UploadResults>>
    /\ UNCHANGED <<type, validatorVars, rewriterVars>>

\* uploadDirectoryToS3 returns, removeTempFolders() runs, and the loop goes
\* to the next file or, behind the last one, the handler answers
RemoveTempFolders ==
    /\ pc = "upload"
    /\ LET fbn == filesInfo[cursor].fileBaseName
           htmlKeys == {i \in 1..Len(uploadResults) : includes(uploadResults[i], ".html")}
       IN  /\ Len(uploadResults) = Len(getFiles(disk, fbn))
           /\ s3UploadResults' = uploadResults
           /\ disk' = removeTempFolders(disk, fbn)
           /\ IF cursor < Len(filesInfo)
              THEN cursor' = cursor + 1 /\ pc' = "validate" /\ UNCHANGED response
              ELSE /\ UNCHANGED cursor
                   /\ IF htmlKeys = {}
                      THEN Responds("ServerError", "TypeError")
                      ELSE Responds("next", uploadResults[Min(htmlKeys)])
    /\ UNCHANGED <<exporter, filesInfo, uploadResults, log>>
    /\ UNCHANGED <<type, validatorVars, rewriterVars>>

NextHandler ==
    \/ ParseFilesFromForm
    \/ ExtractFiles
    \/ ValidateFile
    \/ UploadObjectToS3
    \/ RemoveTempFolders

SpecHandler == InitHandler /\ [][NextHandler]_vars

----------------------------------------------------------------------------
(* Vocabulary of the validator properties, stated on the inputs themselves *)

Validated == pc = "done" /\ listerCalls = 1

HasRoot == \E i \in 1..Len(files) : files[i] \in HtmlPaths

\* The first path of the listing, in listing order, that names an .html file
RootIndex ==
    CHOOSE i \in 1..Len(files) :
        files[i] \in HtmlPaths /\ \A j \in 1..(i - 1) : files[j] \notin HtmlPaths

RootContent == content[files[RootIndex]]

ListsAssets == \E i \in 1..Len(files) : files[i] \in AssetPaths

HasMarker(c) == c \in {MetaTag, MetaTag \o ImageTag}
LinksAssets(c) == c \in {ImageTag, MetaTag \o ImageTag}

\* Base name of a root file: extraction prefix and .html suffix stripped,
\* then the segment before the first path separator.
DerivedName(p, fbn) ==
    CASE p = "a.html" -> "a"
      [] p = "b.html" -> "b"
      [] p = "d/b.html" -> "d"
      [] p = ExtractedRoot -> IF fbn = "a (1)" THEN "a" ELSE ".."

\* The (declared, derived) pairs in which declared contains derived
Containing == {<<"a", "a">>, <<"a (1)", "a">>, <<"b", "b">>}

NamePasses == <<fileBaseName, DerivedName(files[RootIndex], fileBaseName)>> \in Containing

Fails(msg) == ~validation.ok /\ validation.message = msg
Succeeds == validation.ok /\ validation.message = ""

----------------------------------------------------------------------------
(* C1: for either type and every declared base name, a listing without any *)
(* .html path (the empty listing included) makes validateZipFile fail with *)
(* 'Zip file does not contain a root .html file'; it never returns true.   *)
C1_MissingRootHtml ==
    (Validated /\ ~HasRoot) => Fails("Zip file does not contain a root .html file")

C1_Witness ==
    /\ Validated /\ ~HasRoot /\ Len(files) = MaxFiles /\ type = "conversion"
    /\ Fails("Zip file does not contain a root .html file")

(* C2: a gwd bundle whose root content has the generator marker and links  *)
(* src="assets/ fails with the missing-assets message when no listed path  *)
(* contains 'assets/', and is accepted when some listed path does.         *)
C2_AssetCompleteness ==
    (Validated /\ type = "gwd" /\ HasRoot /\ RootContent = MetaTag \o ImageTag) =>
        IF ListsAssets
        THEN Succeeds
        ELSE Fails("Zip file is missing assets folder for linked assets")

C2_Witness ==
    /\ Validated /\ type = "gwd" /\ HasRoot /\ RootContent = MetaTag \o ImageTag
    /\ ListsAssets /\ Succeeds

(* C3: a conversion bundle with a root file and non-empty root content is  *)
(* accepted when the declared base name contains the root file's derived   *)
(* base name, and otherwise fails with a message quoting both names.       *)
C3_BaseNameContainment ==
    (Validated /\ type = "conversion" /\ HasRoot /\ RootContent # "") =>
        IF NamePasses
        THEN Succeeds
        ELSE Fails("Zip file name '" \o fileBaseName \o "' does not contain basename '"
                   \o DerivedName(files[RootIndex], fileBaseName) \o "'")

C3_Witness ==
    /\ Validated /\ type = "conversion" /\ HasRoot /\ RootContent # ""
    /\ fileBaseName = "a (1)" /\ files[RootIndex] = "d/b.html"
    /\ Fails("Zip file name 'a (1)' does not contain basename 'd'")

(* C4: a gwd bundle whose root file has non-empty content without the      *)
(* generator marker fails with the missing-metadata message, whatever else *)
(* the content and the listing hold.                                       *)
C4_MissingGeneratorMetadata ==
    (Validated /\ type = "gwd" /\ HasRoot /\ RootContent # "" /\ ~HasMarker(RootContent)) =>
        Fails("Root .html file does not contain Google Web Designer metadata")

C4_Witness ==
    /\ Validated /\ type = "gwd" /\ HasRoot /\ RootContent = ImageTag /\ ~ListsAssets
    /\ Fails("Root .html file does not contain Google Web Designer metadata")

(* C5: for both types, when the root file exists (and, for conversion, the *)
(* base-name rule passes) and the reader returns zero-length content,      *)
(* validateZipFile fails with 'Root .html file is missing content'.        *)
C5_EmptyRootHtml ==
    (/\ Validated /\ HasRoot /\ RootContent = ""
     /\ (type = "conversion" => NamePasses)) =>
        Fails("Root .html file is missing content")

C5_Witness ==
    /\ Validated /\ HasRoot /\ RootContent = "" /\ type = "conversion" /\ NamePasses
    /\ Fails("Root .html file is missing content")

\* The rules in their documented order, each with the types it applies to;
\* the message of the first violated one, "" when none is violated.
FirstViolation ==
    IF ~HasRoot THEN "Zip file does not contain a root .html file"
    ELSE IF type = "conversion" /\ ~NamePasses
        THEN "Zip file name '" \o fileBaseName \o "' does not contain basename '"
             \o DerivedName(files[RootIndex], fileBaseName) \o "'"
    ELSE IF RootContent = "" THEN "Root .html file is missing content"
    ELSE IF type = "gwd" /\ ~HasMarker(RootContent)
        THEN "Root .html file does not contain Google Web Designer metadata"
    ELSE IF type = "gwd" /\ LinksAssets(RootContent) /\ ~ListsAssets
        THEN "Zip file is missing assets folder for linked assets"
    ELSE ""

(* C6: the rules are checked in the order root-file presence, base-name    *)
(* containment, content non-empty, generator metadata, asset completeness; *)
(* only the first violated rule is reported, and the reader is not invoked *)
(* when root-file presence or base-name containment failed.                *)
C6_FirstViolatedRule ==
    Validated =>
        /\ validation.message = FirstViolation
        /\ validation.ok = (FirstViolation = "")
        /\ (~HasRoot \/ (type = "conversion" /\ ~NamePasses)) => readerCalls = <<>>

C6_Witness ==
    /\ Validated /\ type = "conversion" /\ HasRoot /\ ~NamePasses /\ RootContent = ""
    /\ readerCalls = <<>> /\ ~validation.ok
    /\ validation.message # "Root .html file is missing content"

----------------------------------------------------------------------------
(* Vocabulary of the rewriter properties *)

Rewritten == pc = "done" /\ listerCalls = 0

Count(s, p) == Cardinality({i \in 1..Len(s) : StartsWithAt(s, p, i)})

EndsWith(s, p) == Len(p) <= Len(s) /\ SubSeq(s, Len(s) - Len(p) + 1, Len(s)) = p

NumberOf(kind) == Cardinality({i \in 1..Len(parts) : parts[i].kind = kind})

\* The text a part is to become under type t, as the claims state it: an
\* exit call gets the indirection expression and its URL in single quotes
\* with the comma behind it; an assignment gets the indirection expression
\* and its URL in double quotes; everything else stays as it is.
Expected(p, t) ==
    IF p.kind = "exit" /\ t = "gwd"
        THEN p.pre \o INDIRECTION \o "'" \o p.url \o "'," \o p.post
    ELSE IF p.kind = "assign" /\ t = "conversion"
        THEN p.pre \o INDIRECTION \o "\"" \o p.url \o "\"" \o p.post
    ELSE Render(p)

RECURSIVE ExpectedAll(_, _)
ExpectedAll(ps, t) ==
    IF ps = <<>> THEN "" ELSE Expected(Head(ps), t) \o ExpectedAll(Tail(ps), t)

(* C7: for type gwd, in every matched exit call the quoted URL argument    *)
(* that is followed by a comma becomes the indirection expression followed *)
(* by the original URL in single quotes and the comma; nothing else of the *)
(* call changes.                                                           *)
C7_ExitUrlRequoted ==
    (Rewritten /\ type = "gwd") => output = ExpectedAll(parts, "gwd")

(* C8: for type conversion, every clickTag assignment of a quoted http(s)  *)
(* URL, whatever the casing, the declarator and the quote style, has its   *)
(* literal replaced by the indirection expression followed by the original *)
(* URL in double quotes.                                                   *)
C8_ClickTagRequoted ==
    (Rewritten /\ type = "conversion") => output = ExpectedAll(parts, "conversion")

\* seg is part p rewritten exactly once under type t: it keeps the text
\* before and behind p's URL literal, holds the indirection expression once,
\* directly where the literal began, and still names p's URL.
RewrittenOnce(p, seg, t) ==
    IF (p.kind = "exit" /\ t = "gwd") \/ (p.kind = "assign" /\ t = "conversion")
    THEN /\ StartsWithAt(seg, p.pre \o INDIRECTION, 1)
         /\ EndsWith(seg, p.post)
         /\ Count(seg, INDIRECTION) = 1
         /\ includes(seg, splitFirst(p.url, "?"))
    ELSE seg = Render(p)

\* out is the parts ps, each rewritten once, in the order of ps
RECURSIVE InOrder(_, _, _)
InOrder(ps, out, t) ==
    IF ps = <<>> THEN out = ""
    ELSE \E k \in 0..Len(out) :
            /\ RewrittenOnce(Head(ps), SubSeq(out, 1, k), t)
            /\ InOrder(Tail(ps), SubSeq(out, k + 1, Len(out)), t)

(* C9: a gwd body with n exit calls that carry a quoted URL argument (the  *)
(* argument followed by a comma, as in C7; two calls may be the same text) *)
(* has all n call sites rewritten, each exactly once: the output holds the *)
(* indirection expression n times, once in each call site where the URL    *)
(* literal began, and the call sites keep their order.                     *)
C9_EveryExitOnceInOrder ==
    (Rewritten /\ type = "gwd") =>
        /\ Count(output, INDIRECTION) = NumberOf("exit")
        /\ InOrder(parts, output, "gwd")

C9_Witness ==
    /\ Rewritten /\ type = "gwd" /\ Len(parts) = MaxParts
    /\ \A i \in 1..Len(parts) : parts[i].kind = "exit" /\ parts[i] = parts[1]
    /\ Count(output, INDIRECTION) = MaxParts

\* seg is the assignment p with its literal rewritten and the text from the
\* declarator up to the literal, "=" and white space included, as it was
SpacingKept(p, seg) ==
    IF p.kind = "assign"
    THEN /\ StartsWithAt(seg, p.pre \o INDIRECTION \o "\"", 1)
         /\ EndsWith(seg, "\"" \o p.post)
         /\ Count(seg, INDIRECTION) = 1
    ELSE seg = Render(p)

RECURSIVE SpacingKeptInOrder(_, _)
SpacingKeptInOrder(ps, out) ==
    IF ps = <<>> THEN out = ""
    ELSE \E k \in 0..Len(out) :
            /\ SpacingKept(Head(ps), SubSeq(out, 1, k))
            /\ SpacingKeptInOrder(Tail(ps), SubSeq(out, k + 1, Len(out)))

(* C10: for type conversion, the text between the identifier and the       *)
(* rewritten literal, the "=" with any white space (or none) on either     *)
(* side, is in the output unchanged.                                       *)
C10_AssignmentSpacingKept ==
    (Rewritten /\ type = "conversion") => SpacingKeptInOrder(parts, output)

C10_Witness ==
    /\ Rewritten /\ type = "conversion" /\ Len(parts) = MaxParts
    /\ parts[1].kind = "assign" /\ parts[1].pre = "var clickTag  =  "
    /\ parts[MaxParts].kind = "assign" /\ parts[MaxParts].pre = "let ClickTAG="
    /\ StartsWithAt(output, "var clickTag  =  " \o INDIRECTION, 1)
    /\ includes(output, "let ClickTAG=" \o INDIRECTION)

\* Part p is a recognized occurrence under type t
Recognized(p, t) ==
    (p.kind = "exit" /\ t = "gwd") \/ (p.kind = "assign" /\ t = "conversion")

\* The text of part p behind its URL literal
Behind(p) == IF p.kind = "exit" THEN "," \o p.post ELSE p.post

\* seg is part p with nothing changed but, in a recognized occurrence, the
\* URL literal: the text before the literal and the text behind it are kept
OutsideKept(p, seg, t) ==
    IF Recognized(p, t)
    THEN /\ Len(seg) >= Len(p.pre) + Len(Behind(p))
         /\ StartsWithAt(seg, p.pre, 1)
         /\ EndsWith(seg, Behind(p))
    ELSE seg = Render(p)

RECURSIVE OutsideKeptInOrder(_, _, _)
OutsideKeptInOrder(ps, out, t) ==
    IF ps = <<>> THEN out = ""
    ELSE \E k \in 0..Len(out) :
            /\ OutsideKept(Head(ps), SubSeq(out, 1, k), t)
            /\ OutsideKeptInOrder(Tail(ps), SubSeq(out, k + 1, Len(out)), t)

(* C11: for either type the rewriter returns, and it changes nothing but   *)
(* the URL literals inside the recognized occurrences: the text before and *)
(* behind each literal and every other part of the body are in the output  *)
(* as they were, and a body without a recognized occurrence is returned    *)
(* unchanged.                                                              *)
C11_OnlyUrlLiteralsChange ==
    Rewritten =>
        /\ OutsideKeptInOrder(parts, output, type)
        /\ (\A i \in 1..Len(parts) : ~Recognized(parts[i], type)) => output = body

\* The step is a call of the rewriter on a text it returned before
Reapplication == pc = "done" /\ pc' = "again"

(* C12: a second call of the rewriter, with the same type, on the text the *)
(* first call returned matches no URL that already carries the indirection *)
(* expression: the number of indirection expressions stays as it was and   *)
(* no URL has two of them in front of it.                                  *)
C12_NoSecondIndirection ==
    [][Reapplication =>
          /\ Count(output', INDIRECTION) = Count(output, INDIRECTION)
          /\ ~includes(output', INDIRECTION \o INDIRECTION)]_vars

C12_Witness ==
    /\ pc = "again" /\ Len(parts) = MaxParts
    /\ \A i \in 1..Len(parts) : Recognized(parts[i], type)
    /\ Count(body, INDIRECTION) = MaxParts
    /\ Count(output, INDIRECTION) = MaxParts

(* C17: for type gwd, every text matched as an exit call lies within one  *)
(* line: no match holds a line break.                                      *)
C17_MatchWithinOneLine ==
    (Rewritten /\ type = "gwd") =>
        \A i \in 1..Len(matchResult) : ~includes(matchResult[i], "\n")

\* Part p holds an exit call
HasCall(p) == includes(Render(p), "exit(")

\* The call of part p from the character before "exit(" to its ")": the
\* part without the object name in front and the ";" and line break behind
Call(p) == SubSeq(Render(p), 2, Len(Render(p)) - 2)

RECURSIVE Calls(_)
Calls(ps) ==
    IF ps = <<>> THEN <<>>
    ELSE (IF HasCall(Head(ps)) THEN <<Call(Head(ps))>> ELSE <<>>) \o Calls(Tail(ps))

(* C17 as amended: for type gwd, an exit-call match begins at a character  *)
(* other than a line break that is followed by "exit(" and runs to the     *)
(* first ")" behind it, across line breaks when the argument list is       *)
(* broken over lines; every call of the body is matched so, in order.      *)
C17_MatchUpToFirstParenthesis ==
    (Rewritten /\ type = "gwd") =>
        /\ matchResult = Calls(parts)
        /\ \A i \in 1..Len(matchResult) :
              LET m == matchResult[i]
              IN  /\ SubSeq(m, 2, 6) = "exit("
                  /\ ~IsLineTerminator(CharAt(m, 1))
                  /\ IndexOf(m, ")") = Len(m)

C17_Witness ==
    /\ Rewritten /\ type = "gwd" /\ Len(parts) = MaxParts
    /\ parts[1] \in MultiLineExitParts
    /\ Len(matchResult) = MaxParts
    /\ includes(matchResult[1], "\n")
    /\ includes(output, "g.exit('a',\n  " \o INDIRECTION)

(* C18: the root HTML file is the first path of the listing, in listing   *)
(* order, that contains '.html'.  With several such paths the reader is    *)
(* invoked with the first one only, and the content rules are decided on   *)
(* the content of that file.  On every successful validation, of either    *)
(* type, the lister and the reader have both been invoked.                 *)
C18_FirstHtmlPathIsRoot ==
    (Validated /\ HasRoot) =>
        /\ readerCalls \in {<<>>, <<files[RootIndex]>>}
        /\ Fails(EmptyRootHtml) => RootContent = ""
        /\ Fails(MissingGeneratorMetadata) => ~HasMarker(RootContent)
        /\ Fails(MissingAssetsFolder) => HasMarker(RootContent) /\ LinksAssets(RootContent)
        /\ Succeeds =>
              /\ listerCalls = 1
              /\ readerCalls = <<files[RootIndex]>>
              /\ RootContent # ""
              /\ type = "gwd" => HasMarker(RootContent)

C18_Witness ==
    /\ Validated /\ Succeeds /\ Len(files) = MaxFiles
    /\ \A i \in 1..Len(files) : files[i] \in HtmlPaths
    /\ files[1] # files[MaxFiles]
    /\ content[files[1]] = MetaTag /\ content[files[MaxFiles]] = ""
    /\ readerCalls = <<files[1]>>

----------------------------------------------------------------------------
(* Properties of the upload handler *)

Validations == {i \in 1..Len(log) : log[i].op = "validateZipFile"}
Puts == {i \in 1..Len(log) : log[i].op = "putObject"}
HtmlPuts == {i \in Puts : includes(log[i].key, ".html")}

\* Text b is the root file with the URL pattern of type t rewritten and the
\* pattern of the other type untouched
RewrittenWith(b, t) ==
    IF t = "conversion"
    THEN includes(b, "var clickTag = " \o INDIRECTION) /\ includes(b, ExitCall)
    ELSE includes(b, "g.exit('a', " \o INDIRECTION) /\ includes(b, ClickTag)

(* C13: no file of a bundle is put to remote storage unless validateZipFile *)
(* was called for that bundle before and returned true; a bundle is         *)
(* validated once, before every upload of it.                               *)
C13_ValidatedBeforeUpload ==
    /\ \A i \in Puts : \E j \in Validations :
          j < i /\ log[j].bundle = log[i].bundle /\ log[j].ok
    /\ \A i, j \in Validations : log[i].bundle = log[j].bundle => i = j

C13_Witness ==
    /\ pc = "responded" /\ response.kind = "next"
    /\ Len(log) = 3
    /\ log[1].op = "validateZipFile" /\ log[1].ok
    /\ log[2].op = "putObject" /\ log[3].op = "putObject"

(* C14: when the validation of any bundle of a request fails, nothing of   *)
(* that request is in remote storage when the handler reports the failure, *)
(* no object of an earlier bundle either.                                  *)
C14_NoPartialPublish ==
    (pc = "responded" /\ \E j \in Validations : ~log[j].ok) => Puts = {}

(* C15: for an accepted bundle of declared type gwd or conversion, every   *)
(* .html file put to remote storage is rewritten with the URL pattern of   *)
(* that type, the type its validation used.                                *)
C15_RewrittenAsValidated ==
    exporter \in Types =>
        \A i \in HtmlPuts :
            /\ \E j \in Validations :
                  log[j].bundle = log[i].bundle /\ log[j].type = exporter
            /\ RewrittenWith(log[i].body, exporter)

C19_ExtractedFilesKept ==
    pc \in {"validate", "upload"} =>
        \A k \in cursor..Len(filesInfo) :
            /\ disk[filesInfo[k].fileBaseName].exists
            /\ Len(getFiles(disk, filesInfo[k].fileBaseName))
                  = Len(filesInfo[k].zip.entries)

====
